---- MODULE Spec2Model ----
(* Model of webapp/app.py of LipidFinder: the run-state store, the stage   *)
(* handlers (xcms, run_peakfilter, run_amalgamator, run_mssearch) and the  *)
(* full pipeline (run_pipeline_full).                                      *)
(*                                                                         *)
(* A Python str is a sequence of one-character strings, so that lower(),   *)
(* the "in" substring test, Path(..).name and os.path.join are computed.   *)
EXTENDS Integers, Sequences, FiniteSets, TLC

(***************************************************************************)
(* Strings                                                                 *)
(***************************************************************************)
\* Python's None; no path is this one-element sequence (elements of a str
\* are single characters).
None == <<"None">>
EMPTY == <<>>
SLASH == <<"/">>
NEG == <<"n","e","g">>
NEGATIVE == <<"n","e","g","a","t","i","v","e">>
POS == <<"p","o","s">>
POSITIVE == <<"p","o","s","i","t","i","v","e">>
CSV == <<".","c","s","v">>
PF_NEG_NAME == <<"p","e","a","k","f","i","l","t","e","r","_","n","e","g","a","t","i","v","e","_","s","u","m","m","a","r","y",".","c","s","v">>
PF_POS_NAME == <<"p","e","a","k","f","i","l","t","e","r","_","p","o","s","i","t","i","v","e","_","s","u","m","m","a","r","y",".","c","s","v">>
PF_GEN_NAME == <<"p","e","a","k","f","i","l","t","e","r","_","s","u","m","m","a","r","y",".","c","s","v">>
AMAL_NAME == <<"a","m","a","l","g","a","m","a","t","e","d",".","c","s","v">>
CONFIG_DIR == <<"/","a","p","p","/","w","e","b","a","p","p","/","c","o","n","f","i","g">>
PF_JSON == <<"p","e","a","k","f","i","l","t","e","r",".","j","s","o","n">>
AM_JSON == <<"a","m","a","l","g","a","m","a","t","o","r",".","j","s","o","n">>
MS_JSON == <<"m","s","s","e","a","r","c","h",".","j","s","o","n">>
TMP_JSON == <<"m","s","s","e","a","r","c","h","_","w","e","b","_","p","i","p","e","l","i","n","e",".","j","s","o","n">>
M_PF == <<"L","i","p","i","d","F","i","n","d","e","r",".","r","u","n","_","p","e","a","k","f","i","l","t","e","r">>
M_AM == <<"L","i","p","i","d","F","i","n","d","e","r",".","r","u","n","_","a","m","a","l","g","a","m","a","t","o","r">>
M_MS == <<"L","i","p","i","d","F","i","n","d","e","r",".","r","u","n","_","m","s","s","e","a","r","c","h">>
F_i == <<"-","i">>
F_p == <<"-","p">>
F_o == <<"-","o">>
F_neg == <<"-","n","e","g">>
F_pos == <<"-","p","o","s">>
F_verbose == <<"-","-","v","e","r","b","o","s","e">>
F_timestamp == <<"-","-","t","i","m","e","s","t","a","m","p">>

UPPER == <<"A","B","C","D","E","F","G","H","I","J","K","L","M","N","O","P","Q","R","S","T","U","V","W","X","Y","Z">>
LOWER == <<"a","b","c","d","e","f","g","h","i","j","k","l","m","n","o","p","q","r","s","t","u","v","w","x","y","z">>

LowerOf == [c \in {UPPER[i] : i \in DOMAIN UPPER} |-> LOWER[CHOOSE i \in DOMAIN UPPER : UPPER[i] = c]]

LowerChar(c) == IF c \in DOMAIN LowerOf THEN LowerOf[c] ELSE c

\* str.lower()
Lower(s) == [i \in DOMAIN s |-> LowerChar(s[i])]

\* sub in s
Contains(sub, s) ==
    \E i \in 0..(Len(s) - Len(sub)) : SubSeq(s, i + 1, i + Len(sub)) = sub

\* truth value of a str or None
Truthy(v) == v # None /\ v # EMPTY

\* a or b
Or(a, b) == IF Truthy(a) THEN a ELSE b

RECURSIVE StripSlashes(_)
StripSlashes(p) ==
    IF Len(p) > 1 /\ p[Len(p)] = "/" THEN StripSlashes(SubSeq(p, 1, Len(p) - 1)) ELSE p

\* Path(p).name: the final component, trailing separators dropped
BaseName(p) ==
    LET q == StripSlashes(p)
        cuts == {i \in DOMAIN q : q[i] = "/"}
        last == IF cuts = {} THEN 0 ELSE CHOOSE i \in cuts : \A j \in cuts : j <= i
    IN SubSeq(q, last + 1, Len(q))

\* os.path.join(a, b) for a relative b; str(Path(a) / b) agrees with it on
\* the directories used here
PathJoin(a, b) ==
    IF a = EMPTY THEN b
    ELSE IF a[Len(a)] = "/" THEN a \o b
    ELSE a \o SLASH \o b

\* the polarity test of the filter handler and of the pipeline: on the name
IsNegName(p) == LET lower == Lower(BaseName(p)) IN Contains(NEG, lower) \/ Contains(NEGATIVE, lower)
IsPosName(p) == LET lower == Lower(BaseName(p)) IN Contains(POS, lower) \/ Contains(POSITIVE, lower)

\* the polarity test of the alignment handler: on the whole path string
IsNegPath(p) == LET lower == Lower(p) IN Contains(NEG, lower) \/ Contains(NEGATIVE, lower)
IsPosPath(p) == LET lower == Lower(p) IN Contains(POS, lower) \/ Contains(POSITIVE, lower)

PEAKFILTER_JSON == PathJoin(CONFIG_DIR, PF_JSON)
AMALGAMATOR_JSON == PathJoin(CONFIG_DIR, AM_JSON)
MSSEARCH_JSON == PathJoin(CONFIG_DIR, MS_JSON)
\* (the overlay written over the persisted file)
TMP_MS_PARAMS_InPlace == PathJoin(CONFIG_DIR, MS_JSON)

\* tmp_ms_params, the file the overlay is written to
TMP_MS_PARAMS == PathJoin(CONFIG_DIR, TMP_JSON)

(***************************************************************************)
(* Run-state store                                                         *)
(***************************************************************************)
\* dict.get(k): None for a key that is not in the document
Get(st, k) == IF k \in DOMAIN st THEN st[k] ELSE None

\* (a merge that stores the None values too)
update_state_StoresNone(st, kw) ==
    [k \in DOMAIN st \cup DOMAIN kw |-> IF k \in DOMAIN kw THEN kw[k] ELSE st[k]]

\* the document update_state(**kw) writes over document st
update_state(st, kw) ==
    LET set == {k \in DOMAIN kw : kw[k] # None}
    IN [k \in DOMAIN st \cup set |-> IF k \in set THEN kw[k] ELSE st[k]]

(***************************************************************************)
(* Requests and the disk                                                   *)
(***************************************************************************)
PYTHON == <<"p","y","t","h","o","n">>
F_m == <<"-","m">>
DIR_D == <<"/","d">>
DIR_O == <<"/","o">>
NAME_X == <<"x">>

\* the exit codes of a process
ExitCodes == {0, 1}
\* request.form values offered to the handlers
MzxmlDirs == {EMPTY, DIR_D}
ReportNames == {NEG, POS, NAME_X}
OutDirs == {EMPTY, DIR_O}
XcmsOutputs == {PathJoin(d, r \o CSV) : d \in MzxmlDirs \ {EMPTY}, r \in ReportNames}
NegSummaryOf(o) == PathJoin(o, PF_NEG_NAME)
PosSummaryOf(o) == PathJoin(o, PF_POS_NAME)
GenSummaryOf(o) == PathJoin(o, PF_GEN_NAME)
AmalgamatedOf(o) == PathJoin(o, AMAL_NAME)
FilterInputs == {EMPTY} \cup XcmsOutputs
NegFiles == {EMPTY, NegSummaryOf(DIR_O)}
PosFiles == {EMPTY, PosSummaryOf(DIR_O)}
SearchInputs == {EMPTY, AmalgamatedOf(DIR_O)}
\* files the stages and the alignment tool write, which may later be deleted
DataFiles == XcmsOutputs \cup {NegSummaryOf(DIR_O), PosSummaryOf(DIR_O), GenSummaryOf(DIR_O), AmalgamatedOf(DIR_O)}
\* parameter sets the params form can save for the search stage
MsParamForms ==
    { [plotCategories |-> TRUE, summary |-> TRUE, figFormat |-> "png"],
      [plotCategories |-> FALSE, summary |-> FALSE, figFormat |-> "svg"] }
NoParams == [k \in {} |-> TRUE]
\* the document read_state returns when there is no state.json
EmptyState == [k \in {} |-> EMPTY]

(***************************************************************************)
(* state.json: its text, json.load and json.dump                           *)
(***************************************************************************)
\* The text of a JSON file is a sequence of tokens (white space left out): a
\* punctuation mark, the literal null, or a string, which is a member name
\* (k) or a value (v).
Tok(t) == [t |-> t, k |-> "", v |-> EMPTY]
TokName(k) == [t |-> "name", k |-> k, v |-> EMPTY]
TokStr(v) == [t |-> "str", k |-> "", v |-> v]

\* the keys of RunState, in the order json.dump writes the members in
KEYS ==
    <<"xcms_last_csv", "xcms_last_negative_csv", "xcms_last_positive_csv",
      "peakfilter_last_negative_summary", "peakfilter_last_positive_summary",
      "peakfilter_last_summary", "amalgamator_last_csv">>

\* Python values: what json.load returns
PyDict(items) == [type |-> "dict", items |-> items]
PyList == [type |-> "list", items |-> EmptyState]
PyNone == [type |-> "NoneType", items |-> EmptyState]
PyStr == [type |-> "str", items |-> EmptyState]

\* json.load raised (JSONDecodeError)
Raised == [ok |-> FALSE, value |-> PyNone]
Loaded(value) == [ok |-> TRUE, value |-> value]

\* d[k] = v
Put(d, k, v) == [x \in DOMAIN d \cup {k} |-> IF x = k THEN v ELSE d[x]]

\* the members of an object: name : value (, name : value)*
RECURSIVE ParseMembers(_, _)
ParseMembers(toks, acc) ==
    IF Len(toks) < 3 THEN Raised
    ELSE IF toks[1].t # "name" \/ toks[2].t # ":" \/ toks[3].t # "str" THEN Raised
    ELSE LET next == Put(acc, toks[1].k, toks[3].v)
         IN  IF Len(toks) = 3 THEN Loaded(PyDict(next))
             ELSE IF toks[4].t # "," THEN Raised
             ELSE ParseMembers(SubSeq(toks, 5, Len(toks)), next)

\* json.load on a text: an object of strings, an empty array, null, a string;
\* any other text raises
json_load(text) ==
    IF Len(text) = 0 THEN Raised
    ELSE IF Len(text) = 1
    THEN IF text[1].t = "null" THEN Loaded(PyNone)
         ELSE IF text[1].t \in {"str", "name"} THEN Loaded(PyStr)
         ELSE Raised
    ELSE IF text[1].t = "[" THEN IF Len(text) = 2 /\ text[2].t = "]" THEN Loaded(PyList) ELSE Raised
    ELSE IF text[1].t # "{" \/ text[Len(text)].t # "}" THEN Raised
    ELSE IF Len(text) = 2 THEN Loaded(PyDict(EmptyState))
    ELSE ParseMembers(SubSeq(text, 2, Len(text) - 1), EmptyState)

RECURSIVE DumpMembers(_, _, _)
DumpMembers(items, i, first) ==
    IF i > Len(KEYS) THEN <<>>
    ELSE IF KEYS[i] \notin DOMAIN items THEN DumpMembers(items, i + 1, first)
    ELSE (IF first THEN <<>> ELSE <<Tok(",")>>)
         \o <<TokName(KEYS[i]), Tok(":"), TokStr(items[KEYS[i]])>>
         \o DumpMembers(items, i + 1, FALSE)

\* the text json.dump writes for a value
json_dump(value) ==
    IF value.type = "dict" THEN <<Tok("{")>> \o DumpMembers(value.items, 1, TRUE) \o <<Tok("}")>>
    ELSE IF value.type = "list" THEN <<Tok("["), Tok("]")>>
    ELSE <<Tok("null")>>

\* update_state() with no keyword
NoKw == [k \in {} |-> None]

\* the file at STATE_PATH
NoFile == [exists |-> FALSE, text |-> <<>>]
File(text) == [exists |-> TRUE, text |-> text]

\* read_state(): the value loaded, {} when open or json.load raises
read_state(d) ==
    IF ~d.exists THEN PyDict(EmptyState)
    ELSE LET r == json_load(d.text)
         IN IF r.ok THEN r.value ELSE PyDict(EmptyState)

\* (the file opened for appending)
OPEN_MODE_Append == "a"

\* the mode update_state opens STATE_PATH in
OPEN_MODE == "w"

\* open(STATE_PATH, OPEN_MODE): the file is there; mode "w" empties it
Truncated(d) == IF OPEN_MODE = "w" THEN File(<<>>) ELSE File(d.text)

\* the buffered text reaches the file when it is closed: in mode "w" written
\* from the start of the file, over what is there
Flushed(d, text) ==
    IF OPEN_MODE = "w" THEN File(text \o SubSeq(d.text, Len(text) + 1, Len(d.text)))
    ELSE File(d.text \o text)

VARIABLES
    state,      \* the document at STATE_PATH, as read_state returns it
    files,      \* the paths for which os.path.isfile is true
    msParams,   \* the content of mssearch.json
    tmpParams,  \* the content of mssearch_web_pipeline.json
    last,       \* the last request served by xcms or a standalone stage handler
    run,        \* the run_pipeline_full request in progress, or the last one
    served,     \* the number of requests served so far
    doc,        \* the file at STATE_PATH: whether it exists, and its text
    calls,      \* per request thread, the read_state / update_state call it is in
    made,       \* the number of store calls begun so far
    hist,       \* what the store calls made so far have passed and left
    cls         \* the last path classified, with the key each handler chose

\* the handlers, their files and their requests
appVars == <<state, files, msParams, tmpParams, last, run, served>>
\* the store file and the calls on it
storeVars == <<doc, calls, made, hist>>

vars == <<state, files, msParams, tmpParams, last, run, served, doc, calls, made, hist, cls>>

\* the number of requests followed
MaxRequests == 2

\* a request is accepted; requests are followed one at a time, a pipeline
\* run to its return
Accept ==
    /\ served < MaxRequests
    /\ served' = served + 1
    /\ run.pc \in {"idle", "done"}
    /\ UNCHANGED <<storeVars, cls>>

\* os.path.isfile
isfile(p) == p \in files

\* the command list of run_python_module
Cmd(module_name, args_list) == <<PYTHON, F_m, module_name>> \o args_list

\* whether the operating system can start the executable of a command
Launches == {"started", "not_found", "denied"}
\* the same for sys.executable
PyLaunches == {"started", "not_found"}

\* subprocess.run(..., check=False): the exit code of the process, or the
\* exception raised when it cannot be started
SubprocessRun(launch, code) ==
    IF launch = "started" THEN [raised |-> "none", returncode |-> code]
    ELSE IF launch = "not_found" THEN [raised |-> "FileNotFoundError", returncode |-> 0]
    ELSE [raised |-> "PermissionError", returncode |-> 0]

\* (a runner that turns a failed launch into exit code 1)
run_python_module_ExitCode(launch, code) ==
    [raised |-> "none", returncode |-> IF launch = "started" THEN code ELSE 1]

\* run_python_module: nothing is caught, an exception of subprocess.run goes
\* up to the handler and out of it
run_python_module(launch, code) == SubprocessRun(launch, code)

\* [rscript_path, script_path]
RSCRIPT == <<"R","s","c","r","i","p","t">>
XCMS_R == <<"d","o","c","s","/","x","c","m","s",".","R">>
XcmsCmd == <<RSCRIPT, XCMS_R>>

Flags(verbose, timestamp) ==
    (IF verbose THEN <<F_verbose>> ELSE <<>>) \o (IF timestamp THEN <<F_timestamp>> ELSE <<>>)

\* the record of a served request: what was asked, what it answered, the
\* processes it spawned
Served(handler, outcome, form, input, cmd, spawned, code) ==
    [handler |-> handler, outcome |-> outcome, form |-> form,
     input |-> input, cmd |-> cmd, spawned |-> spawned, code |-> code]

RunIdle ==
    [pc |-> "idle", outcome |-> "none", neg_input |-> EMPTY, pos_input |-> EMPTY,
     output_dir |-> EMPTY, verbose |-> FALSE, timestamp |-> FALSE,
     explicit |-> <<EMPTY, EMPTY>>, missing |-> <<>>,
     neg_summary |-> None, pos_summary |-> None, amalgamated_csv |-> None,
     ms_input |-> None, cmd |-> <<>>, launch |-> "none", invoked |-> <<>>, codes |-> <<>>,
     logs |-> <<>>, success |-> FALSE]

NoLast ==
    [handler |-> "none", outcome |-> "none", form |-> <<>>,
     input |-> <<>>, cmd |-> <<>>, spawned |-> 0, code |-> 0]

\* a request to xcms or to a standalone stage handler is accepted: last
\* describes it, run describes no pipeline request
AcceptStage ==
    /\ Accept
    /\ run' = RunIdle

\* no request has been served
AppInit ==
    /\ state = EmptyState
    /\ files = {}
    /\ msParams = NoParams
    /\ tmpParams = NoParams
    /\ last = NoLast
    /\ run = RunIdle
    /\ served = 0

\* a thread in no store call
NoCall ==
    [pc |-> "idle", id |-> 0, op |-> "none", kw |-> NoKw, st |-> PyNone, obj |-> PyNone,
     outcome |-> "none", solo |-> TRUE, stale |-> FALSE]

\* no store call has been made on document d
HistOf(d) ==
    [latest |-> IF read_state(d).type = "dict" THEN read_state(d).items ELSE EmptyState,
     clean |-> TRUE,
     prev |-> [valid |-> FALSE, kw |-> NoKw, doc |-> d, outcome |-> "none"],
     again |-> FALSE,
     lastWriter |-> 0]

\* no path has been classified
NoCls == [path |-> EMPTY, xcms |-> "none", peakfilter |-> "none"]

\* The handlers are followed with the store as read_state returns it (state),
\* its writes taken to succeed; the calls on the file itself are followed
\* apart (doc, calls).
Init ==
    /\ AppInit
    /\ doc = NoFile
    /\ calls = [p \in {1, 2} |-> NoCall]
    /\ made = 0
    /\ hist = HistOf(NoFile)
    /\ cls = NoCls

(***************************************************************************)
(* params: saving a stage's parameter file                                 *)
(***************************************************************************)
SaveParams(module, values) ==
    /\ served < MaxRequests
    /\ files' = files \cup {PathJoin(CONFIG_DIR, module)}
    /\ msParams' = IF module = MS_JSON THEN values ELSE msParams
    /\ UNCHANGED <<state, tmpParams, last, run, served, storeVars, cls>>

(***************************************************************************)
(* the disk outside the handlers                                           *)
(***************************************************************************)
DeleteFile(f) ==
    /\ served < MaxRequests
    /\ f \in files
    /\ files' = files \ {f}
    /\ UNCHANGED <<state, msParams, tmpParams, last, run, served, storeVars, cls>>

(***************************************************************************)
(* xcms                                                                    *)
(***************************************************************************)
\* the entries xcms records for result path rp
XcmsEntries(rp) ==
    LET key == IF IsNegPath(rp) THEN "xcms_last_negative_csv"
               ELSE IF IsPosPath(rp) THEN "xcms_last_positive_csv"
               ELSE "none"
    IN [k \in {"xcms_last_csv"} \cup ({key} \ {"none"}) |-> rp]

\* (a success read from the exit code of the process)
XcmsSuccess_ByExitCode(code, result_path, disk) == code = 0

\* success = result_path.exists(), on the disk the process has left
XcmsSuccess(code, result_path, disk) == result_path \in disk

Xcms(launch, mzxml_dir, report_name) ==
    LET result_path == PathJoin(mzxml_dir, report_name \o CSV)
    IN  /\ AcceptStage
        /\ IF ~Truthy(mzxml_dir)
           THEN /\ last' = Served("xcms", "config_error", <<mzxml_dir, report_name>>, <<>>, <<>>, 0, 0)
                /\ UNCHANGED <<state, files, msParams, tmpParams>>
           ELSE IF SubprocessRun(launch, 0).raised = "FileNotFoundError"
           THEN /\ last' = Served("xcms", "launch_error", <<mzxml_dir, report_name>>, <<result_path>>, XcmsCmd, 0, 0)
                /\ UNCHANGED <<state, files, msParams, tmpParams>>
           ELSE IF SubprocessRun(launch, 0).raised # "none"
           THEN /\ last' = Served("xcms", "raised", <<mzxml_dir, report_name>>, <<result_path>>, XcmsCmd, 0, 0)
                /\ UNCHANGED <<state, files, msParams, tmpParams>>
           ELSE \E code \in ExitCodes, produced \in BOOLEAN :
                LET disk == IF produced THEN files \cup {result_path} ELSE files
                    success == XcmsSuccess(code, result_path, disk)
                IN  /\ files' = disk
                    /\ state' = IF success THEN update_state(state, XcmsEntries(result_path))
                                ELSE state
                    /\ last' = Served("xcms", IF success THEN "ran" ELSE "no_output",
                                      <<mzxml_dir, report_name>>, <<result_path>>, XcmsCmd, 1, code)
                    /\ UNCHANGED <<msParams, tmpParams>>

(***************************************************************************)
(* run_peakfilter                                                          *)
(***************************************************************************)
\* (a resolver that takes the first recorded candidate without looking at
\* the disk)
RECURSIVE FirstFile_NoCheck(_)
FirstFile_NoCheck(candidates) ==
    IF candidates = <<>> THEN EMPTY
    ELSE IF Truthy(Head(candidates)) THEN Head(candidates)
    ELSE FirstFile_NoCheck(Tail(candidates))

\* for cand in candidates: if cand and os.path.isfile(cand): take it, break
RECURSIVE FirstFile(_)
FirstFile(candidates) ==
    IF candidates = <<>> THEN EMPTY
    ELSE IF Truthy(Head(candidates)) /\ isfile(Head(candidates)) THEN Head(candidates)
    ELSE FirstFile(Tail(candidates))

PeakfilterCandidates(st) ==
    <<Get(st, "xcms_last_negative_csv"), Get(st, "xcms_last_positive_csv"), Get(st, "xcms_last_csv")>>

\* the input run_peakfilter uses for the form value input_path
PeakfilterInput(input_path) ==
    IF ~Truthy(input_path) THEN FirstFile(PeakfilterCandidates(state)) ELSE input_path

\* the entry run_peakfilter records after the process has returned
PeakfilterEntries(input_path, output_dir) ==
    IF ~Truthy(output_dir) THEN NoParams
    ELSE IF IsNegName(input_path)
    THEN [k \in {"peakfilter_last_negative_summary"} |-> NegSummaryOf(output_dir)]
    ELSE IF IsPosName(input_path)
    THEN [k \in {"peakfilter_last_positive_summary"} |-> PosSummaryOf(output_dir)]
    ELSE [k \in {"peakfilter_last_summary"} |-> GenSummaryOf(output_dir)]

\* the files a stage process leaves in its output directory
Outputs(entries, produced) ==
    IF produced THEN {entries[k] : k \in DOMAIN entries} ELSE {}

RunPeakfilter(input_path, output_dir, params_path, flags) ==
    LET input == PeakfilterInput(input_path)
        args == <<F_i, input, F_p, params_path>>
                \o (IF Truthy(output_dir) THEN <<F_o, output_dir>> ELSE <<>>)
                \o Flags(flags[1], flags[2])
        entries == PeakfilterEntries(input, output_dir)
    IN  /\ AcceptStage
        /\ IF ~Truthy(input)
           THEN /\ last' = Served("run_peakfilter", "missing_input", <<input_path, output_dir, params_path>>, <<>>, <<>>, 0, 0)
                /\ UNCHANGED <<state, files, msParams, tmpParams>>
           ELSE IF ~isfile(params_path)
           THEN /\ last' = Served("run_peakfilter", "missing_params", <<input_path, output_dir, params_path>>, <<>>, <<>>, 0, 0)
                /\ UNCHANGED <<state, files, msParams, tmpParams>>
           ELSE \E launch \in PyLaunches, code \in ExitCodes, produced \in BOOLEAN :
                LET proc == run_python_module(launch, code)
                    spawned == IF launch = "started" THEN 1 ELSE 0
                IN  IF proc.raised # "none"
                    THEN /\ last' = Served("run_peakfilter", "raised", <<input_path, output_dir, params_path>>, <<input>>,
                                           Cmd(M_PF, args), spawned, 0)
                         /\ UNCHANGED <<state, files, msParams, tmpParams>>
                    ELSE /\ files' = files \cup Outputs(entries, produced /\ spawned = 1)
                         /\ state' = IF entries = NoParams THEN state ELSE update_state(state, entries)
                         /\ last' = Served("run_peakfilter", "ran", <<input_path, output_dir, params_path>>, <<input>>,
                                           Cmd(M_PF, args), spawned, proc.returncode)
                         /\ UNCHANGED <<msParams, tmpParams>>

(***************************************************************************)
(* run_amalgamator                                                         *)
(***************************************************************************)
\* the two inputs run_amalgamator uses for the form values neg_file, pos_file
AmalgamatorInputs(neg_file, pos_file) ==
    IF ~(Truthy(neg_file) /\ Truthy(pos_file))
    THEN <<Or(neg_file, Get(state, "peakfilter_last_negative_summary")),
           Or(pos_file, Get(state, "peakfilter_last_positive_summary"))>>
    ELSE <<neg_file, pos_file>>

RunAmalgamator(neg_file, pos_file, output_dir, params_path) ==
    LET inputs == AmalgamatorInputs(neg_file, pos_file)
        args == <<F_neg, inputs[1], F_pos, inputs[2], F_p, params_path>>
                \o (IF Truthy(output_dir) THEN <<F_o, output_dir>> ELSE <<>>)
        entries == IF Truthy(output_dir)
                   THEN [k \in {"amalgamator_last_csv"} |-> AmalgamatedOf(output_dir)]
                   ELSE NoParams
    IN  /\ AcceptStage
        /\ IF ~(Truthy(inputs[1]) /\ Truthy(inputs[2]))
           THEN /\ last' = Served("run_amalgamator", "missing_input", <<neg_file, pos_file, output_dir, params_path>>, <<>>, <<>>, 0, 0)
                /\ UNCHANGED <<state, files, msParams, tmpParams>>
           ELSE IF ~isfile(params_path)
           THEN /\ last' = Served("run_amalgamator", "missing_params", <<neg_file, pos_file, output_dir, params_path>>, <<>>, <<>>, 0, 0)
                /\ UNCHANGED <<state, files, msParams, tmpParams>>
           ELSE \E launch \in PyLaunches, code \in ExitCodes, produced \in BOOLEAN :
                LET proc == run_python_module(launch, code)
                    spawned == IF launch = "started" THEN 1 ELSE 0
                IN  IF proc.raised # "none"
                    THEN /\ last' = Served("run_amalgamator", "raised", <<neg_file, pos_file, output_dir, params_path>>, inputs,
                                           Cmd(M_AM, args), spawned, 0)
                         /\ UNCHANGED <<state, files, msParams, tmpParams>>
                    ELSE /\ files' = files \cup Outputs(entries, produced /\ spawned = 1)
                         /\ state' = IF proc.returncode = 0 /\ Truthy(output_dir)
                                     THEN update_state(state, entries) ELSE state
                         /\ last' = Served("run_amalgamator", "ran", <<neg_file, pos_file, output_dir, params_path>>, inputs,
                                           Cmd(M_AM, args), spawned, proc.returncode)
                         /\ UNCHANGED <<msParams, tmpParams>>

(***************************************************************************)
(* run_mssearch                                                            *)
(***************************************************************************)
\* the input run_mssearch uses for the form value input_file
MssearchInput(input_file) ==
    IF ~Truthy(input_file)
    THEN Or(Get(state, "amalgamator_last_csv"),
            Or(Get(state, "peakfilter_last_negative_summary"),
               Or(Get(state, "peakfilter_last_positive_summary"),
                  Get(state, "peakfilter_last_summary"))))
    ELSE input_file

RunMssearch(input_file, output_dir, params_path) ==
    LET input == MssearchInput(input_file)
        args == <<F_i, input, F_p, params_path>>
                \o (IF Truthy(output_dir) THEN <<F_o, output_dir>> ELSE <<>>)
    IN  /\ AcceptStage
        /\ IF ~Truthy(input)
           THEN /\ last' = Served("run_mssearch", "missing_input", <<input_file, output_dir, params_path>>, <<>>, <<>>, 0, 0)
                /\ UNCHANGED <<state, files, msParams, tmpParams>>
           ELSE IF ~isfile(params_path)
           THEN /\ last' = Served("run_mssearch", "missing_params", <<input_file, output_dir, params_path>>, <<>>, <<>>, 0, 0)
                /\ UNCHANGED <<state, files, msParams, tmpParams>>
           ELSE \E launch \in PyLaunches, code \in ExitCodes :
                LET proc == run_python_module(launch, code)
                    spawned == IF launch = "started" THEN 1 ELSE 0
                IN  /\ last' = IF proc.raised # "none"
                                THEN Served("run_mssearch", "raised", <<input_file, output_dir, params_path>>, <<input>>,
                                            Cmd(M_MS, args), spawned, 0)
                                ELSE Served("run_mssearch", "ran", <<input_file, output_dir, params_path>>, <<input>>,
                                            Cmd(M_MS, args), spawned, proc.returncode)
                    /\ UNCHANGED <<state, files, msParams, tmpParams>>

(***************************************************************************)
(* run_pipeline_full                                                       *)
(***************************************************************************)
\* (a resolution that fills every empty branch from the last alignment run)
PipelineInputs_FillEmpty(neg_input, pos_input) ==
    LET neg == Or(neg_input, Get(state, "xcms_last_negative_csv"))
        pos == Or(pos_input, Get(state, "xcms_last_positive_csv"))
        generic == Get(state, "xcms_last_csv")
    IN  IF Truthy(neg) \/ Truthy(pos) THEN <<neg, pos>>
        ELSE IF Truthy(generic) /\ isfile(generic)
        THEN IF IsPosName(generic) /\ ~IsNegName(generic) THEN <<neg, generic>>
             ELSE <<generic, pos>>
        ELSE <<neg, pos>>

\* the polarity inputs after auto-resolution from the last alignment run
PipelineInputs(neg_input, pos_input) ==
    IF Truthy(neg_input) \/ Truthy(pos_input) THEN <<neg_input, pos_input>>
    ELSE LET neg == Or(Get(state, "xcms_last_negative_csv"), neg_input)
             pos == Or(Get(state, "xcms_last_positive_csv"), pos_input)
             generic == Get(state, "xcms_last_csv")
         IN  IF Truthy(neg) \/ Truthy(pos) THEN <<neg, pos>>
             ELSE IF Truthy(generic) /\ isfile(generic)
             THEN IF IsNegName(generic) THEN <<generic, pos>>
                  ELSE IF IsPosName(generic) THEN <<neg, generic>>
                  ELSE <<generic, pos>>
             ELSE <<neg, pos>>

\* (a preflight that asks for the Amalgamator file only when both polarities
\* are given)
MissingParams_OnlyNeeded(neg_input, pos_input) ==
    (IF (Truthy(neg_input) \/ Truthy(pos_input)) /\ ~isfile(PEAKFILTER_JSON)
     THEN <<"PeakFilter">> ELSE <<>>)
    \o (IF Truthy(neg_input) /\ Truthy(pos_input) /\ ~isfile(AMALGAMATOR_JSON)
        THEN <<"Amalgamator">> ELSE <<>>)
    \o (IF ~isfile(MSSEARCH_JSON) THEN <<"MSSearch">> ELSE <<>>)

\* the stages whose parameter file is missing
MissingParams(neg_input, pos_input) ==
    (IF (Truthy(neg_input) \/ Truthy(pos_input)) /\ ~isfile(PEAKFILTER_JSON)
     THEN <<"PeakFilter">> ELSE <<>>)
    \o (IF ~isfile(AMALGAMATOR_JSON) THEN <<"Amalgamator">> ELSE <<>>)
    \o (IF ~isfile(MSSEARCH_JSON) THEN <<"MSSearch">> ELSE <<>>)

\* the parameter set written to mssearch_web_pipeline.json
MsOverlay(obj) ==
    [k \in DOMAIN obj \cup {"plotCategories", "summary", "figFormat"} |->
        IF k = "figFormat" THEN "png"
        ELSE IF k \in DOMAIN obj THEN obj[k]
        ELSE TRUE]

\* json.load of mssearch.json, {} when it cannot be read
MsParamsObj == IF isfile(MSSEARCH_JSON) THEN msParams ELSE NoParams

\* the titles of the log entries
T_NEG == "PeakFilter (negative)"
T_POS == "PeakFilter (positive)"
T_AMAL == "Amalgamator"
T_SEARCH == "MSSearch"

\* run_python_module is entered for the stage: its process is running
Spawn(r, stage, title, cmd) ==
    [r EXCEPT !.pc = stage, !.cmd = cmd, !.invoked = Append(@, title)]

\* 3) MSSearch on amalgamated or single summary
EnterSearch(r) ==
    LET ms_input == Or(r.amalgamated_csv, Or(r.neg_summary, r.pos_summary))
    IN Spawn([r EXCEPT !.ms_input = ms_input], "search", T_SEARCH,
             Cmd(M_MS, <<F_i, ms_input, F_p, TMP_MS_PARAMS, F_o, r.output_dir>>))

\* (an amalgamation entered with a single summary)
EnterAmalgamate_Either(r) ==
    IF Truthy(r.neg_summary) \/ Truthy(r.pos_summary)
    THEN Spawn(r, "amal", T_AMAL,
               Cmd(M_AM, <<F_neg, r.neg_summary, F_pos, r.pos_summary,
                           F_p, AMALGAMATOR_JSON, F_o, r.output_dir>>))
    ELSE EnterSearch(r)

\* 2) Amalgamate if both summaries exist
EnterAmalgamate(r) ==
    IF Truthy(r.neg_summary) /\ Truthy(r.pos_summary)
    THEN Spawn(r, "amal", T_AMAL,
               Cmd(M_AM, <<F_neg, r.neg_summary, F_pos, r.pos_summary,
                           F_p, AMALGAMATOR_JSON, F_o, r.output_dir>>))
    ELSE EnterSearch(r)

EnterPositive(r) ==
    IF Truthy(r.pos_input)
    THEN Spawn(r, "pos", T_POS,
               Cmd(M_PF, <<F_i, r.pos_input, F_p, PEAKFILTER_JSON, F_o, r.output_dir>>
                         \o Flags(r.verbose, r.timestamp)))
    ELSE EnterAmalgamate(r)

\* (a first step that goes to the search whatever the inputs)
EnterNegative_NoFilter(r) == EnterSearch(r)

\* 1) Run PeakFilter for provided inputs
EnterNegative(r) ==
    IF Truthy(r.neg_input)
    THEN Spawn(r, "neg", T_NEG,
               Cmd(M_PF, <<F_i, r.neg_input, F_p, PEAKFILTER_JSON, F_o, r.output_dir>>
                         \o Flags(r.verbose, r.timestamp)))
    ELSE EnterPositive(r)

\* (a return that always renders success)
Return_AlwaysSuccess(r, outcome, success) ==
    [r EXCEPT !.pc = "done", !.outcome = outcome, !.success = TRUE, !.cmd = <<>>]

\* the handler returns: a redirect, or the rendered log with its success flag
Return(r, outcome, success) ==
    [r EXCEPT !.pc = "done", !.outcome = outcome, !.success = success, !.cmd = <<>>]

\* the log after the running stage's process has exited with code
Logged(r, code) ==
    [r EXCEPT !.codes = Append(@, code),
              !.logs = Append(@, [title |-> r.invoked[Len(r.invoked)],
                                  command |-> r.cmd, success |-> code = 0])]

\* the handler after the stage r.pc has succeeded
Continue(r, logged) ==
    IF r.pc = "neg"
    THEN EnterPositive([logged EXCEPT !.neg_summary = NegSummaryOf(r.output_dir)])
    ELSE IF r.pc = "pos"
    THEN EnterAmalgamate([logged EXCEPT !.pos_summary = PosSummaryOf(r.output_dir)])
    ELSE IF r.pc = "amal"
    THEN EnterSearch([logged EXCEPT !.amalgamated_csv = AmalgamatedOf(r.output_dir)])
    ELSE Return(logged, "success", TRUE)

\* (a handler that goes on to the next stage after a failure, and returns
\* failed at the end)
AfterExit_NoHalt(r, code) ==
    IF code # 0 /\ r.pc = "search" THEN Return(Logged(r, code), "failed", FALSE)
    ELSE Continue(r, Logged(r, code))

\* (a handler that runs a failed first stage once more)
AfterExit_RetryOnce(r, code) ==
    IF code # 0 /\ r.logs = <<>>
    THEN Spawn(Logged(r, code), r.pc, r.invoked[Len(r.invoked)], r.cmd)
    ELSE IF code # 0 THEN Return(Logged(r, code), "failed", FALSE)
    ELSE Continue(r, Logged(r, code))

\* the handler after the running stage's process has exited with code
AfterExit(r, code) ==
    IF code # 0 THEN Return(Logged(r, code), "failed", FALSE)
    ELSE Continue(r, Logged(r, code))

\* the exception of run_python_module leaves the handler: no page is rendered
Raise(r) == [r EXCEPT !.pc = "done", !.outcome = "raised", !.success = FALSE]

\* run_python_module on the command of the stage r has entered: the process
\* runs, or the call raises
Launch(r, launch) ==
    IF r.pc \notin {"neg", "pos", "amal", "search"} THEN r
    ELSE IF run_python_module(launch, 0).raised # "none" THEN Raise([r EXCEPT !.launch = launch])
    ELSE [r EXCEPT !.launch = launch]

\* the overlay file is rewritten on the way into the search stage
WriteOverlay(before, after) ==
    IF after.pc = "search" /\ before.pc # "search"
    THEN /\ tmpParams' = IF TMP_MS_PARAMS = MSSEARCH_JSON THEN tmpParams ELSE MsOverlay(MsParamsObj)
         /\ msParams' = IF TMP_MS_PARAMS = MSSEARCH_JSON THEN MsOverlay(MsParamsObj) ELSE msParams
         /\ files' = files \cup {TMP_MS_PARAMS}
    ELSE /\ tmpParams' = tmpParams
         /\ msParams' = msParams
         /\ files' = files

PipelineStart(neg_form, pos_form, output_dir, flags, launch) ==
    LET inputs == PipelineInputs(neg_form, pos_form)
        missing == MissingParams(inputs[1], inputs[2])
        r == [RunIdle EXCEPT !.explicit = <<neg_form, pos_form>>, !.output_dir = output_dir,
                             !.verbose = flags[1], !.timestamp = flags[2]]
        resolved == [r EXCEPT !.neg_input = inputs[1], !.pos_input = inputs[2]]
        next == IF ~Truthy(output_dir) THEN Return(r, "config_error", FALSE)
                ELSE IF ~(Truthy(inputs[1]) \/ Truthy(inputs[2]))
                THEN Return(r, "missing_input", FALSE)
                ELSE IF missing # <<>>
                THEN Return([resolved EXCEPT !.missing = missing], "missing_params", FALSE)
                ELSE EnterNegative(resolved)
    IN  /\ run.pc \in {"idle", "done"}
        /\ Accept
        /\ run' = Launch(next, launch)
        /\ WriteOverlay(run, next)
        /\ last' = NoLast
        /\ UNCHANGED state

\* the running stage's process exits with code; what it has written into
\* the output directory is read by no handler
PipelineStageExit(code, launch) ==
    LET next == AfterExit(run, code)
    IN  /\ run.pc \in {"neg", "pos", "amal", "search"}
        /\ run' = Launch(next, launch)
        /\ WriteOverlay(run, next)
        /\ UNCHANGED <<state, last, served, storeVars, cls>>

(***************************************************************************)
(* read_state and update_state, statement by statement, on request threads *)
(***************************************************************************)
\* the request threads followed
Threads == {1, 2}
\* the number of store calls followed
MaxCalls == 2

K_CSV == "xcms_last_csv"
K_NEG == "xcms_last_negative_csv"
P_X == PathJoin(DIR_D, NAME_X \o CSV)
P_N == PathJoin(DIR_D, NEG \o CSV)

\* keyword arguments passed to update_state
KwChoices ==
    { [k \in {K_CSV} |-> P_X],
      [k \in {K_CSV, K_NEG} |-> P_N],
      [k \in {K_CSV, K_NEG} |-> IF k = K_CSV THEN None ELSE P_X] }

\* what state.json holds when the application starts
InitDocs ==
    { NoFile,
      File(<<>>),
      File(SubSeq(json_dump(PyDict([k \in {K_CSV} |-> P_N])), 1, 3)),
      File(json_dump(PyDict([k \in {K_CSV} |-> P_N]))),
      File(<<Tok("["), Tok("]")>>),
      File(<<Tok("null")>>) }

\* no other thread is inside a store call
Alone(p) == \A q \in Threads \ {p} : calls[q].pc \in {"idle", "done"}

\* thread p enters a call: a call in progress on another thread is no longer
\* alone
Enter(p, c) ==
    [q \in Threads |->
        IF q = p THEN c
        ELSE IF calls[q].pc \in {"idle", "done"} THEN calls[q]
        ELSE [calls[q] EXCEPT !.solo = FALSE]]

\* the bookkeeping of a call that has returned
Returned(c, left) ==
    [hist EXCEPT
        !.clean = @ /\ c.solo /\ c.outcome \in {"written", "got"},
        !.latest = IF c.outcome = "written"
                   THEN [k \in DOMAIN @ \cup {x \in DOMAIN c.kw : c.kw[x] # None} |->
                            IF k \in DOMAIN c.kw /\ c.kw[k] # None THEN c.kw[k] ELSE @[k]]
                   ELSE @,
        !.prev = IF c.op = "update"
                 THEN [valid |-> c.solo, kw |-> c.kw, doc |-> left, outcome |-> c.outcome]
                 ELSE @,
        !.again = /\ c.op = "update" /\ c.solo /\ c.outcome = "written"
                  /\ hist.prev.valid /\ hist.prev.outcome = "written" /\ hist.prev.kw = c.kw]

\* for k, v in kwargs.items(): if v is not None: state[k] = v
\* (on a value that is not a dict the assignment raises TypeError)
Merge(st, kw) ==
    IF st.type = "dict" THEN Loaded(PyDict(update_state(st.items, kw)))
    ELSE IF \A k \in DOMAIN kw : kw[k] = None THEN Loaded(st)
    ELSE Raised

\* a handler's st = read_state() followed by st.get(key): on a value that is
\* not a dict the attribute lookup raises AttributeError
Lookup(p, key) ==
    LET st == read_state(doc)
        c == [NoCall EXCEPT !.pc = "done", !.id = made + 1, !.op = "get", !.st = st,
                            !.solo = Alone(p),
                            !.outcome = IF st.type = "dict" THEN "got" ELSE "raised"]
    IN  /\ made < MaxCalls
        /\ calls[p].pc \in {"idle", "done"}
        /\ made' = made + 1
        /\ calls' = Enter(p, c)
        /\ hist' = Returned(c, doc)
        /\ UNCHANGED <<doc, appVars, cls>>

\* update_state(**kw) up to the end of its loop
UpdateRead(p, kw) ==
    LET st == read_state(doc)
        m == Merge(st, kw)
        c == [NoCall EXCEPT !.id = made + 1, !.op = "update", !.kw = kw, !.st = st,
                            !.solo = Alone(p),
                            !.pc = IF m.ok THEN "merged" ELSE "done",
                            !.obj = m.value,
                            !.outcome = IF m.ok THEN "none" ELSE "raised"]
    IN  /\ made < MaxCalls
        /\ calls[p].pc \in {"idle", "done"}
        /\ made' = made + 1
        /\ calls' = Enter(p, c)
        /\ hist' = IF m.ok THEN hist ELSE Returned(c, doc)
        /\ UNCHANGED <<doc, appVars, cls>>

\* open(STATE_PATH, "w"): the file is truncated, or open raises and the call
\* returns
UpdateOpen(p, ok) ==
    LET c == [calls[p] EXCEPT !.pc = IF ok THEN "opened" ELSE "done",
                              !.outcome = IF ok THEN "none" ELSE "write_failed"]
    IN  /\ calls[p].pc = "merged"
        /\ doc' = IF ok THEN Truncated(doc) ELSE doc
        /\ calls' = [calls EXCEPT ![p] = c]
        /\ hist' = IF ok THEN hist ELSE Returned(c, doc)
        /\ UNCHANGED <<made, appVars, cls>>

\* json.dump and the close of the file: the text is written, or the write
\* raises and the call returns
UpdateFlush(p, ok) ==
    LET c == [calls[p] EXCEPT !.pc = "done",
                              !.outcome = IF ok THEN "written" ELSE "write_failed"]
        left == IF ok THEN Flushed(doc, json_dump(calls[p].obj)) ELSE doc
    IN  /\ calls[p].pc = "opened"
        /\ doc' = left
        /\ calls' = [q \in Threads |->
                        IF q = p THEN c
                        ELSE IF ok /\ calls[q].pc \in {"merged", "opened"}
                        THEN [calls[q] EXCEPT !.stale = TRUE]
                        ELSE calls[q]]
        /\ hist' = [Returned(c, left) EXCEPT !.lastWriter = IF ok THEN p ELSE @]
        /\ UNCHANGED <<made, appVars, cls>>

(***************************************************************************)
(* the polarity a handler reads from a path                                *)
(***************************************************************************)
\* the polarity a set of RunState keys stands for
PolarityOf(keys) ==
    IF keys \cap {"xcms_last_negative_csv", "peakfilter_last_negative_summary"} # {} THEN "negative"
    ELSE IF keys \cap {"xcms_last_positive_csv", "peakfilter_last_positive_summary"} # {} THEN "positive"
    ELSE "unknown"

DIR_NEG == <<"/","n","e","g">>
DIR_POS == <<"/","P","o","s">>
NEG_UPPER == <<"N","E","G">>
POS_MIXED == <<"P","o","s">>
\* directories and report names given to xcms
PolarityDirs == {DIR_D, DIR_O, DIR_NEG, DIR_POS}
NameParts == {EMPTY, NAME_X, NEG, NEG_UPPER, POS, POS_MIXED, NEGATIVE, POSITIVE}
PolarityNames == {a \o b : a \in NameParts, b \in NameParts} \ {EMPTY}

\* xcms has produced <mzxml_dir>/<report_name>.csv and chooses the key to
\* record it under
XcmsClassifies(mzxml_dir, report_name) ==
    LET rp == PathJoin(mzxml_dir, report_name \o CSV)
    IN  /\ cls' = [path |-> rp, xcms |-> PolarityOf(DOMAIN XcmsEntries(rp)), peakfilter |-> "none"]
        /\ UNCHANGED <<appVars, storeVars>>

\* run_peakfilter is given that file as its input and chooses the key to
\* record its summary under
PeakfilterClassifies ==
    /\ cls.xcms # "none" /\ cls.peakfilter = "none"
    /\ cls' = [cls EXCEPT !.peakfilter = PolarityOf(DOMAIN PeakfilterEntries(cls.path, DIR_O))]
    /\ UNCHANGED <<appVars, storeVars>>

(***************************************************************************)
(* Specification                                                           *)
(***************************************************************************)
\* the values of the verbose and timestamp check boxes
FlagChoices == {<<FALSE, FALSE>>, <<TRUE, TRUE>>}
PipelineNeg == {EMPTY, PathJoin(DIR_D, NEG \o CSV)}
PipelinePos == {EMPTY, PathJoin(DIR_D, POS \o CSV)}

\* the params form, the disk and the alignment tool
Environment ==
    \/ \E m \in {PF_JSON, AM_JSON} : SaveParams(m, NoParams)
    \/ \E v \in MsParamForms : SaveParams(MS_JSON, v)
    \/ \E f \in DataFiles : DeleteFile(f)
    \/ \E l \in Launches, d \in MzxmlDirs, r \in ReportNames : Xcms(l, d, r)

\* the standalone stage handlers
Stages ==
    \/ \E i \in FilterInputs, o \in OutDirs, p \in {PEAKFILTER_JSON},
          fl \in FlagChoices :
            RunPeakfilter(i, o, p, fl)
    \/ \E n \in NegFiles, q \in PosFiles, o \in OutDirs, p \in {AMALGAMATOR_JSON} :
            RunAmalgamator(n, q, o, p)
    \/ \E i \in SearchInputs, o \in OutDirs, p \in {MSSEARCH_JSON} :
            RunMssearch(i, o, p)

\* the full pipeline: the request, then the exits of its processes
Pipeline ==
    \/ \E n \in PipelineNeg, q \in PipelinePos, o \in OutDirs, fl \in FlagChoices,
          l \in PyLaunches :
            PipelineStart(n, q, o, fl, l)
    \/ \E c \in ExitCodes, l \in PyLaunches : PipelineStageExit(c, l)

Next == Environment \/ Stages \/ Pipeline

Spec == Init /\ [][Next]_vars

\* every launched process eventually exits
FairSpec == Spec /\ WF_vars(\E c \in ExitCodes, l \in PyLaunches : PipelineStageExit(c, l))

\* the store calls of two request threads, on any state.json
StoreInit ==
    /\ AppInit
    /\ doc \in InitDocs
    /\ calls = [p \in Threads |-> NoCall]
    /\ made = 0
    /\ hist = HistOf(doc)
    /\ cls = NoCls

StoreNext ==
    \/ \E p \in Threads : Lookup(p, K_CSV)
    \/ \E p \in Threads, kw \in KwChoices : UpdateRead(p, kw)
    \/ \E p \in Threads, ok \in BOOLEAN : UpdateOpen(p, ok)
    \/ \E p \in Threads, ok \in BOOLEAN : UpdateFlush(p, ok)

StoreSpec == StoreInit /\ [][StoreNext]_vars

\* the two handlers classifying the files xcms can produce
PolarityNext ==
    \/ \E d \in PolarityDirs, r \in PolarityNames : XcmsClassifies(d, r)
    \/ PeakfilterClassifies

PolaritySpec == Init /\ [][PolarityNext]_vars

(***************************************************************************)
(* Properties                                                              *)
(***************************************************************************)
StageHandlers == {"run_peakfilter", "run_amalgamator", "run_mssearch"}

\* a step that serves a request
Serves == served' # served

\* the first of cands that is non-empty and names a file of fs, else ""
FirstExisting(cands, fs) ==
    LET ok == {i \in DOMAIN cands : Truthy(cands[i]) /\ cands[i] \in fs}
    IN IF ok = {} THEN EMPTY ELSE cands[CHOOSE i \in ok : \A j \in ok : i <= j]

LogTitles(r) == [i \in DOMAIN r.logs |-> r.logs[i].title]

\* the run has returned its log
Rendered(r) == r.pc = "done" /\ r.outcome \in {"success", "failed"}

Succeeded(r, title) == \E i \in DOMAIN r.logs : r.logs[i].title = title /\ r.logs[i].success

\* C1: in the full pipeline a stage that exits non-zero is the last one
\* invoked and its entry is the last of the returned log; with both polarity
\* inputs and a failing negative filter, the positive filter is not invoked
\* and the log has one entry.
C1_HaltOnFirstFailure ==
    /\ \A i \in DOMAIN run.logs :
          ~run.logs[i].success =>
              (i = Len(run.logs) /\ Len(run.invoked) = i /\ run.pc = "done" /\ run.outcome = "failed")
    /\ (Truthy(run.neg_input) /\ Truthy(run.pos_input) /\ run.logs # <<>> /\ ~run.logs[1].success)
          => (run.invoked = <<T_NEG>> /\ Len(run.logs) = 1)

C1_Witness ==
    /\ Truthy(run.neg_input) /\ Truthy(run.pos_input)
    /\ run.pc = "done" /\ run.outcome = "failed"
    /\ Len(run.logs) = 1 /\ run.logs[1].title = T_NEG /\ ~run.logs[1].success

\* the stages whose parameter file is not on the disk
C2_MissingStages ==
    SelectSeq(<<"PeakFilter", "Amalgamator", "MSSearch">>,
              LAMBDA n : ~isfile(IF n = "PeakFilter" THEN PEAKFILTER_JSON
                                 ELSE IF n = "Amalgamator" THEN AMALGAMATOR_JSON
                                 ELSE MSSEARCH_JSON))

C3_RecordsOutputs ==
    /\ Succeeded(run, T_NEG)
          => Get(state, "peakfilter_last_negative_summary") = NegSummaryOf(run.output_dir)
    /\ Succeeded(run, T_POS)
          => Get(state, "peakfilter_last_positive_summary") = PosSummaryOf(run.output_dir)
    /\ Succeeded(run, T_AMAL)
          => Get(state, "amalgamator_last_csv") = AmalgamatedOf(run.output_dir)

\* C4: a standalone stage handler whose process exits non-zero leaves the
\* RunState document unchanged.
C4_FailedRunKeepsState ==
    [][(Serves /\ last'.handler \in StageHandlers /\ last'.outcome = "ran" /\ last'.code # 0)
          => state' = state]_vars

\* C5: run_mssearch without an explicit input runs on the first of the
\* amalgamated file, the negative, the positive and the generic summary that
\* is recorded and exists on the disk, and reports a missing input when
\* there is none.
C5_SearchInput ==
    [][(Serves /\ last'.handler = "run_mssearch" /\ ~Truthy(last'.form[1])) =>
          LET want == FirstExisting(<<Get(state, "amalgamator_last_csv"),
                                      Get(state, "peakfilter_last_negative_summary"),
                                      Get(state, "peakfilter_last_positive_summary"),
                                      Get(state, "peakfilter_last_summary")>>, files)
          IN  /\ (want = EMPTY) => last'.outcome = "missing_input"
              /\ last'.outcome = "ran" => last'.input = <<want>>]_vars

\* C6: run_amalgamator spawns its process only with both inputs available:
\* an input not given in the form is the recorded filter summary of its
\* polarity, and that file exists on the disk.
C6_BothPolarities ==
    [][(Serves /\ last'.handler = "run_amalgamator" /\ last'.outcome = "ran") =>
          LET given == Truthy(last'.form[1]) /\ Truthy(last'.form[2])
              neg == Get(state, "peakfilter_last_negative_summary")
              pos == Get(state, "peakfilter_last_positive_summary")
          IN  /\ Truthy(last'.input[1]) /\ Truthy(last'.input[2])
              /\ (~given /\ ~Truthy(last'.form[1])) => (last'.input[1] = neg /\ isfile(neg))
              /\ (~given /\ ~Truthy(last'.form[2])) => (last'.input[2] = pos /\ isfile(pos))]_vars

\* the command of the search stage of the run
SearchCommand(r) ==
    IF r.pc = "search" \/ r.outcome = "raised" THEN r.cmd
    ELSE r.logs[CHOOSE i \in DOMAIN r.logs : r.logs[i].title = T_SEARCH].command

\* C7: in the full pipeline the amalgamation is invoked exactly when the
\* negative and the positive filter both ran and succeeded in this run; the
\* search runs on the amalgamated file when the amalgamation ran, and else
\* on the summary of the one filter that ran.
C7_AmalgamateIffBoth ==
    /\ (\E i \in DOMAIN run.invoked : run.invoked[i] = T_AMAL)
          <=> (Succeeded(run, T_NEG) /\ Succeeded(run, T_POS))
    /\ (\E i \in DOMAIN run.invoked : run.invoked[i] = T_SEARCH) =>
          LET want == IF \E i \in DOMAIN run.invoked : run.invoked[i] = T_AMAL
                      THEN AmalgamatedOf(run.output_dir)
                      ELSE IF Succeeded(run, T_NEG) THEN NegSummaryOf(run.output_dir)
                      ELSE PosSummaryOf(run.output_dir)
          IN  /\ SearchCommand(run)[4] = F_i
              /\ SearchCommand(run)[5] = want
              /\ (\E i \in DOMAIN run.invoked : run.invoked[i] = T_AMAL) => Succeeded(run, T_AMAL)
              /\ Succeeded(run, T_NEG) \/ Succeeded(run, T_POS)

C7_Witness ==
    /\ Rendered(run) /\ run.success
    /\ LogTitles(run) = <<T_POS, T_SEARCH>>
    /\ SearchCommand(run)[5] = PosSummaryOf(run.output_dir)

\* the place of a stage in the fixed order
Rank(title) ==
    IF title = T_NEG THEN 1 ELSE IF title = T_POS THEN 2 ELSE IF title = T_AMAL THEN 3 ELSE 4

C8_Sequential ==
    /\ \A i, j \in DOMAIN run.invoked : i < j => Rank(run.invoked[i]) < Rank(run.invoked[j])
    /\ Len(run.invoked) - Len(run.logs)
          = (IF run.pc \in {"neg", "pos", "amal", "search"} \/ run.outcome = "raised" THEN 1 ELSE 0)
    /\ LogTitles(run) = SubSeq(run.invoked, 1, Len(run.logs))
    /\ (Rendered(run) /\ run.success /\ Truthy(run.neg_input) /\ Truthy(run.pos_input))
          => LogTitles(run) = <<T_NEG, T_POS, T_AMAL, T_SEARCH>>

\* C8: the stages of a full pipeline run are invoked one after another, a
\* stage only when the process before it has exited, each at most once, in
\* the order negative filter, positive filter, amalgamation, search; the log
\* is the list of the stages invoked, of length 4 when both inputs are given
\* and all succeed; and a run whose processes all exit reaches success or
\* failed (or, when a later stage cannot be started, ends with the exception
\* of that launch).
C8_OrderAndTermination ==
    /\ []C8_Sequential
    /\ (run.pc \in {"neg", "pos", "amal", "search"}) ~> (Rendered(run) \/ run.outcome = "raised")

C8_Witness ==
    /\ Rendered(run) /\ run.success
    /\ LogTitles(run) = <<T_NEG, T_POS, T_AMAL, T_SEARCH>>

\* C9: the success flag a full pipeline run returns is the conjunction of
\* the success fields of its log entries, and an entry's success is true
\* exactly when its process exited with code 0.
C9_SuccessIsConjunction ==
    /\ Len(run.codes) = Len(run.logs)
    /\ \A i \in DOMAIN run.logs : run.logs[i].success <=> (run.codes[i] = 0)
    /\ Rendered(run) => (run.success <=> \A i \in DOMAIN run.logs : run.logs[i].success)

C9_Witness ==
    /\ Rendered(run) /\ ~run.success
    /\ Len(run.logs) = 3 /\ run.codes = <<0, 0, 1>>

AlignmentEntries(st) ==
    <<Get(st, "xcms_last_negative_csv"), Get(st, "xcms_last_positive_csv"), Get(st, "xcms_last_csv")>>

C14_LaunchFailureDistinct ==
    /\ last.cmd # <<>> =>
          /\ (last.spawned = 0) <=> (last.outcome \in {"launch_error", "raised"})
          /\ (last.spawned = 1) <=> (last.outcome \in {"ran", "no_output"})
          /\ (last.handler \in StageHandlers /\ last.spawned = 0) => last.outcome = "raised"
    /\ (run.launch \notin {"none", "started"}) <=> (run.outcome = "raised")
    /\ run.outcome = "raised" =>
          /\ run.pc = "done" /\ ~run.success
          /\ Len(run.logs) = Len(run.invoked) - 1
    /\ Rendered(run) => run.launch = "started"

C14_Witness ==
    /\ last.handler = "run_mssearch" /\ last.outcome = "raised"
    /\ last.cmd # <<>> /\ last.spawned = 0

\* C15: a full pipeline request with neither polarity input takes its inputs
\* from the alignment entries of RunState: a polarity entry whose file
\* exists goes to its own branch; with no polarity entry recorded, the
\* generic entry, if its file exists, goes to the branch its file name
\* names, and to the negative branch when it names none; every input used
\* is a file on the disk; and with no input the run halts with no stage
\* invoked.
C15_AutoResolve ==
    [][(Serves /\ run'.pc # "idle" /\ run'.explicit = <<EMPTY, EMPTY>> /\ Truthy(run'.output_dir)) =>
          LET neg == Get(state, "xcms_last_negative_csv")
              pos == Get(state, "xcms_last_positive_csv")
              generic == Get(state, "xcms_last_csv")
              used == {run'.neg_input, run'.pos_input} \ {EMPTY}
          IN  /\ \A f \in used : f \in files
              /\ (Truthy(neg) /\ neg \in files) => run'.neg_input = neg
              /\ (Truthy(pos) /\ pos \in files) => run'.pos_input = pos
              /\ (~Truthy(neg) /\ ~Truthy(pos) /\ Truthy(generic) /\ generic \in files) =>
                    IF IsPosName(generic) /\ ~IsNegName(generic)
                    THEN run'.pos_input = generic /\ run'.neg_input = EMPTY
                    ELSE run'.neg_input = generic /\ run'.pos_input = EMPTY
              /\ (used = {}) => (run'.outcome = "missing_input" /\ run'.invoked = <<>>)
              /\ (used # {}) => run'.outcome # "missing_input"
    ]_vars

\* the polarity the name of the file at path p stands for: negative markers
\* first
NamePolarity(p) ==
    LET name == Lower(BaseName(p))
    IN  IF Contains(NEG, name) \/ Contains(NEGATIVE, name) THEN "negative"
        ELSE IF Contains(POS, name) \/ Contains(POSITIVE, name) THEN "positive"
        ELSE "unknown"

\* C16: the key a handler records a file under follows from the name of the
\* file alone, whatever its directory: negative when the name holds a
\* negative marker in any case, also next to a positive one, positive when
\* it holds only a positive marker, unknown otherwise; and xcms and
\* run_peakfilter choose alike for the same file.
C16_PolarityByName ==
    /\ cls.xcms # "none" => cls.xcms = NamePolarity(cls.path)
    /\ cls.peakfilter # "none" => cls.peakfilter = NamePolarity(cls.path)
    /\ (cls.xcms # "none" /\ cls.peakfilter # "none") => cls.xcms = cls.peakfilter

\* C17: the parameter set the full pipeline hands to the search stage has
\* category plotting on, summary on and the chart format png, whatever
\* mssearch.json holds for the three.
C17_OverlayForced ==
    (\E i \in DOMAIN run.invoked : run.invoked[i] = T_SEARCH) =>
        /\ SearchCommand(run)[7] = TMP_MS_PARAMS
        /\ tmpParams.plotCategories = TRUE
        /\ tmpParams.summary = TRUE
        /\ tmpParams.figFormat = "png"

\* a step of run_pipeline_full: the request, or the exit of a stage
PipelineStep ==
    \/ Serves /\ run'.pc # "idle"
    \/ run.pc \in {"neg", "pos", "amal", "search"} /\ run' # run

\* C18: no step of a full pipeline run changes mssearch.json: its content
\* and its presence stay as they were, whether stages succeed or fail; what
\* the run writes is the overlay file mssearch_web_pipeline.json.
C18_ParamsFileKept ==
    [][PipelineStep =>
          /\ msParams' = msParams
          /\ (MSSEARCH_JSON \in files') <=> (MSSEARCH_JSON \in files)
          /\ tmpParams' # tmpParams => run'.invoked[Len(run'.invoked)] = T_SEARCH
          /\ \A f \in files' \ files : f = PathJoin(CONFIG_DIR, TMP_JSON)
    ]_vars

C18_Witness ==
    /\ Rendered(run) /\ run.success
    /\ msParams = [plotCategories |-> FALSE, summary |-> FALSE, figFormat |-> "svg"]
    /\ tmpParams = [plotCategories |-> FALSE, summary |-> FALSE, figFormat |-> "png"]

\* thread p enters a store call in this step
Begins(p) == made' # made /\ calls'[p].id = made'

\* C11: read_state returns a key-to-value map whatever state.json holds, the
\* empty map when the file is missing or does not parse, and no call made by
\* a request raises because of what the file holds.
C11_ReadNeverFails ==
    [][\A p \in Threads : Begins(p) =>
          /\ calls'[p].st.type = "dict"
          /\ (~doc.exists \/ ~json_load(doc.text).ok) => calls'[p].st = PyDict(EmptyState)
          /\ calls'[p].outcome # "raised"]_vars

\* thread p returns from a store call in this step
Completes(p) == calls'[p].pc = "done" /\ (Begins(p) \/ calls[p].pc \in {"merged", "opened"})

\* thread p returns from an update_state call that repeats the call before
\* it: the same keywords, each call alone on the store
Repeats(p) ==
    /\ Completes(p) /\ calls'[p].op = "update" /\ calls'[p].solo
    /\ hist.prev.valid /\ hist.prev.kw = calls'[p].kw

Passed(kw) == {k \in DOMAIN kw : kw[k] # None}

\* thread p made the last write, and thread q wrote between p's read and
\* p's write
Overwrote(p, q) ==
    /\ p # q
    /\ calls[p].pc = "done" /\ calls[p].op = "update" /\ calls[p].outcome = "written"
    /\ calls[q].pc = "done" /\ calls[q].op = "update" /\ calls[q].outcome = "written"
    /\ hist.lastWriter = p /\ calls[p].stale

\* C19: when two update_state calls overlap, state.json is in the end the
\* whole document of the call that wrote last: what the other call wrote
\* between that call's read and its write is lost, and the result is not the
\* merge of the two.
C19_LastWriterWins ==
    \A p, q \in Threads : Overwrote(p, q) =>
        /\ doc = File(json_dump(calls[p].obj))
        /\ \A k \in Passed(calls[q].kw) \ Passed(calls[p].kw) :
              Get(calls[p].st.items, k) # calls[q].kw[k]
                 => Get(read_state(doc).items, k) # calls[q].kw[k]

\* no store call is in progress
AtRest == \A p \in Threads : calls[p].pc \in {"idle", "done"}

\* C20: after update_state calls made one at a time, the write of each
\* succeeding, state.json is an object that maps every key to the last value
\* other than None passed for it, or to the value it had at the start when
\* none was passed: a None leaves the key as it is, a key that is not named
\* stays, and no key goes away.
C20_MostRecentValues ==
    (AtRest /\ hist.clean /\ hist.prev.outcome = "written") =>
        /\ json_load(doc.text).ok
        /\ read_state(doc) = PyDict(hist.latest)

C20_Witness ==
    /\ AtRest /\ hist.clean /\ made = 2
    /\ hist.prev.outcome = "written"
    /\ hist.prev.kw = [k \in {K_CSV, K_NEG} |-> IF k = K_CSV THEN None ELSE P_X]
    /\ read_state(doc).items = [k \in {K_CSV, K_NEG} |-> P_X]

\* the request of the run names a polarity input
Explicit(r) == Truthy(r.explicit[1]) \/ Truthy(r.explicit[2])

\* the run went past the preflight checks
Preflighted(r) ==
    r.pc # "idle" /\ r.outcome \notin {"config_error", "missing_input", "missing_params"}

\* the stages a request with the inputs neg and pos asks for, in order
Plan(neg, pos) ==
    (IF Truthy(neg) THEN <<T_NEG>> ELSE <<>>)
    \o (IF Truthy(pos) THEN <<T_POS>> ELSE <<>>)
    \o (IF Truthy(neg) /\ Truthy(pos) THEN <<T_AMAL>> ELSE <<>>)
    \o <<T_SEARCH>>

\* the command of a stage, from the request alone
PlanCommand(title, neg, pos, o, verbose, timestamp) ==
    IF title = T_NEG
    THEN Cmd(M_PF, <<F_i, neg, F_p, PEAKFILTER_JSON, F_o, o>> \o Flags(verbose, timestamp))
    ELSE IF title = T_POS
    THEN Cmd(M_PF, <<F_i, pos, F_p, PEAKFILTER_JSON, F_o, o>> \o Flags(verbose, timestamp))
    ELSE IF title = T_AMAL
    THEN Cmd(M_AM, <<F_neg, NegSummaryOf(o), F_pos, PosSummaryOf(o),
                     F_p, AMALGAMATOR_JSON, F_o, o>>)
    ELSE Cmd(M_MS, <<F_i,
                     IF Truthy(neg) /\ Truthy(pos) THEN AmalgamatedOf(o)
                     ELSE IF Truthy(neg) THEN NegSummaryOf(o) ELSE PosSummaryOf(o),
                     F_p, TMP_MS_PARAMS, F_o, o>>)

\* the number of stages invoked after the exit codes seen so far
PlanReach(plan, codes) ==
    IF Len(codes) < Len(plan) /\ \A i \in DOMAIN codes : codes[i] = 0
    THEN Len(codes) + 1 ELSE Len(codes)

\* C21: a full pipeline run whose request names a polarity input is a
\* function of the request, the parameter files and the exit codes, whatever
\* RunState holds: the inputs are the two of the request, an empty one staying
\* empty; the stages invoked, their commands and the log are those the
\* request and the exit codes give; and it is never answered with a missing
\* input.
C21_IndependentOfRunState ==
    (run.pc # "idle" /\ Explicit(run)) =>
        LET neg == run.explicit[1]
            pos == run.explicit[2]
            plan == Plan(neg, pos)
            cmd(t) == PlanCommand(t, neg, pos, run.output_dir, run.verbose, run.timestamp)
        IN  /\ run.outcome # "missing_input"
            /\ ~Preflighted(run) => (run.invoked = <<>> /\ run.logs = <<>>)
            /\ Preflighted(run) =>
                  /\ run.neg_input = neg /\ run.pos_input = pos
                  /\ run.invoked = SubSeq(plan, 1, PlanReach(plan, run.codes))
                  /\ Len(run.logs) = Len(run.codes)
                  /\ \A i \in DOMAIN run.logs :
                        /\ run.logs[i].title = plan[i]
                        /\ run.logs[i].command = cmd(plan[i])
                        /\ run.logs[i].success = (run.codes[i] = 0)
                  /\ (run.pc # "done" \/ run.outcome = "raised")
                        => run.cmd = cmd(plan[Len(run.invoked)])

\* a negative-only request served while RunState names an existing positive
\* alignment file
C21_Witness ==
    /\ Rendered(run) /\ run.success
    /\ Truthy(run.explicit[1]) /\ ~Truthy(run.explicit[2])
    /\ Truthy(Get(state, "xcms_last_positive_csv"))
    /\ isfile(Get(state, "xcms_last_positive_csv"))
    /\ run.pos_input = EMPTY
    /\ LogTitles(run) = <<T_NEG, T_SEARCH>>

\* the place of the stage title in the stages invoked, 0 when it was not
Place(r, title) ==
    IF \E i \in DOMAIN r.invoked : r.invoked[i] = title
    THEN CHOOSE i \in DOMAIN r.invoked : r.invoked[i] = title
    ELSE 0

\* the filter stage title has succeeded in the run before the search stage
\* was invoked
FilteredBeforeSearch(r, title) ==
    /\ Place(r, title) > 0 /\ Place(r, title) < Place(r, T_SEARCH)
    /\ Place(r, title) \in DOMAIN r.logs
    /\ r.logs[Place(r, title)].success

\* C22: a full pipeline run that passes the preflight checks invokes between
\* 1 and 4 stages, the first of them a filter; the search is invoked only
\* after a filter of this run has succeeded, and its input argument is the
\* non-empty path of a summary or of the amalgamated file.
C22_FilterBeforeSearch ==
    Preflighted(run) =>
        /\ Len(run.invoked) \in 1..4
        /\ run.invoked[1] \in {T_NEG, T_POS}
        /\ Place(run, T_SEARCH) > 0 =>
              /\ FilteredBeforeSearch(run, T_NEG) \/ FilteredBeforeSearch(run, T_POS)
              /\ SearchCommand(run)[4] = F_i
              /\ Truthy(SearchCommand(run)[5])
              /\ SearchCommand(run)[5] = run.ms_input

C22_Witness ==
    /\ Preflighted(run) /\ run.pc = "search"
    /\ run.invoked = <<T_NEG, T_POS, T_AMAL, T_SEARCH>>
    /\ Truthy(run.cmd[5])

====
